---------------------------- MODULE Spec2Model ----------------------------
(***************************************************************************)
(* A model of the blackjack dealer (src/server.py, handle_client) and of   *)
(* the player (src/client.py, play_game) talking over one TCP connection.  *)
(*                                                                         *)
(* The connection is two byte streams: c2s (player to dealer) and s2c      *)
(* (dealer to player).  Frames are byte sequences built the way            *)
(* struct.pack builds them and taken apart the way struct.unpack does.     *)
(*                                                                         *)
(* Specifications:                                                         *)
(*   Spec          the dealer against an arbitrary peer: any of a set of   *)
(*                 well formed and malformed frames, sent early or late,   *)
(*                 short reads, timeouts, socket errors, a peer that       *)
(*                 closes or dies in the middle of a frame;                *)
(*   LiveSpec      the dealer, scheduled fairly, against a peer that       *)
(*                 answers every prompt with a valid frame;                *)
(*   GameSpec      the dealer against play_game over a reliable            *)
(*                 connection;                                             *)
(*   SeasonSpec    the same, with the counters an earlier game left;       *)
(*   ServerSpec    start_server: the accept loop, the broadcast thread     *)
(*                 and one thread of handle_client for each connection;    *)
(*   ListenerSpec  start_client's loop over the datagrams it receives;     *)
(*   RxSpec        the three receive loops, each on its own, over every    *)
(*                 way of cutting the stream into chunks.                  *)
(***************************************************************************)
EXTENDS Integers, Sequences, FiniteSets, TLC

(***************************************************************************)
(* Bounds of the model.                                                    *)
(***************************************************************************)
\* the largest roundCount a SessionRequest of the model carries
MaxRounds == 2
\* malformed Decision frames the dealer reads within one round; they come
\* one after the other, before the round's next well formed frame
MaxBad == 1
\* short reads (recv returning a single byte though more were asked for
\* and are in flight) the network makes within one frame
MaxSplits == 1
\* the connections start_server serves at one time
MaxSessions == 2

(***************************************************************************)
(* Program constants.                                                      *)
(***************************************************************************)
\* sizes of the three stream frames
REQUEST_SIZE == 38
DECISION_SIZE == 10
PAYLOAD_SIZE == 9
\* message type bytes
TYPE_REQUEST == 3
TYPE_PAYLOAD == 4
\* the dealer stops drawing at this total, a hand above BUST is bust
DEALER_STAND == 17
BUST == 21
\* result codes
TIE == 1
LOSS == 2
WIN == 3

\* 0xabcddcba as struct's '!I' lays it out: four bytes, most significant
\* first.  (The value is above 2^31 - 1, the largest integer TLC holds, so
\* the 32-bit field is kept as its four bytes, which determine it.)
MAGIC_COOKIE == <<171, 205, 220, 186>>
\* a magic constant that differs from MAGIC_COOKIE in its last byte
BAD_MAGIC == <<171, 205, 220, 187>>

\* "badaboom_sapir_batel".encode().ljust(32, b'\x00')
TEAM_NAME_FIELD ==
    <<98, 97, 100, 97, 98, 111, 111, 109, 95, 115, 97, 112, 105, 114, 95,
      98, 97, 116, 101, 108, 0, 0, 0, 0, 0, 0, 0, 0, 0, 0, 0, 0>>
\* an identity field holding the byte 0xff, which no UTF-8 text contains
BAD_NAME_FIELD == [i \in 1..32 |-> IF i = 1 THEN 255 ELSE 0]

\* b"Hittt", b"Stand", and a command that is neither (b"hittt")
HITTT == <<72, 105, 116, 116, 116>>
STAND == <<83, 116, 97, 110, 100>>
LOWER_HITTT == <<104, 105, 116, 116, 116>>

(***************************************************************************)
(* The card source.  get_card() returns any (rank, suit) of 1..13 x 0..3; *)
(* the model draws from this sample of it: an ace (worth 11), a number     *)
(* card (worth its rank) and a face card (worth 10).  With these a hand    *)
(* can be bust on the deal (two aces), a Hit can bust the player or leave  *)
(* the hand in play, and the dealer stands on the deal or draws one card   *)
(* or several, ending at 17 or more, bust or not.                          *)
(***************************************************************************)
Deck == {<<1, 0>>, <<3, 2>>, <<13, 3>>}

Min(a, b) == IF a < b THEN a ELSE b

(***************************************************************************)
(* card_value and the hand total.                                          *)
(***************************************************************************)
\* a valuation that counts the ace as 1
card_value_ace_low(rank) ==
    IF rank >= 10 THEN 10
    ELSE rank

card_value(rank) ==
    IF rank = 1 THEN 11
    ELSE IF rank >= 10 THEN 10
    ELSE rank

RECURSIVE HandTotal(_)
HandTotal(cards) ==
    IF cards = <<>> THEN 0
    ELSE card_value(cards[1][1]) + HandTotal(Tail(cards))

(***************************************************************************)
(* The message codec: struct.pack and struct.unpack on the three frames.   *)
(***************************************************************************)
\* struct.pack('!IBB32s', magic, type, rounds, name)
PackRequest(magic, m_type, n, name) == magic \o <<m_type, n>> \o name

\* struct.pack('!IBB HB', magic, type, res, rank, suit): rank is two bytes
PackPayload(magic, m_type, res, rank, suit) ==
    magic \o <<m_type, res, rank \div 256, rank % 256, suit>>

\* struct.pack('!IB5s', magic, type, command)
PackDecision(magic, m_type, command) == magic \o <<m_type>> \o command

\* struct.unpack('!IBB32s', data[:38])
UnpackRequest(d) ==
    [magic |-> SubSeq(d, 1, 4), m_type |-> d[5], rounds |-> d[6],
     name |-> SubSeq(d, 7, 38)]

\* struct.unpack('!IBB HB', data), field by field
PayloadMagic(d) == SubSeq(d, 1, 4)
PayloadType(d) == d[5]
PayloadRes(d) == d[6]
PayloadRank(d) == d[7] * 256 + d[8]
PayloadSuit(d) == d[9]

UnpackPayload(d) ==
    [magic |-> PayloadMagic(d), m_type |-> PayloadType(d), res |-> PayloadRes(d),
     rank |-> PayloadRank(d), suit |-> PayloadSuit(d)]

\* struct.unpack('!IB5s', decision_data)
UnpackDecision(d) ==
    [magic |-> SubSeq(d, 1, 4), m_type |-> d[5], decision |-> SubSeq(d, 6, 10)]

\* name.decode(): bytes.decode raises on a byte sequence that is not UTF-8.
\* Every identity field of the model is ASCII or holds 0xff, and for those
\* the text is UTF-8 exactly when every byte is below 128.
Decodes(name) == \A i \in 1..Len(name) : name[i] < 128

\* the frames the dealer sends
CardFrame(card) == PackPayload(MAGIC_COOKIE, TYPE_PAYLOAD, 0, card[1], card[2])
ControlFrame == PackPayload(MAGIC_COOKIE, TYPE_PAYLOAD, 0, 0, 0)
ResultFrame(res) == PackPayload(MAGIC_COOKIE, TYPE_PAYLOAD, res, 0, 0)

(***************************************************************************)
(* State.                                                                  *)
(***************************************************************************)
VARIABLES
    \* handle_client: where it is, and its locals
    pc,             \* the statement handle_client is at
    data,           \* the bytes of the request read so far
    decision_data,  \* the bytes of the decision read so far
    rounds,         \* roundCount unpacked from the request
    r,              \* rounds completed (the for loop's index)
    player_cards,   \* the player's hand, a sequence of <<rank, suit>>
    dealer_cards,   \* the dealer's hand
    p_sum, d_sum,   \* the totals as last computed
    res,            \* the result code as last computed (0: none yet)
    exit,           \* how handle_client left its try block
    closed,         \* conn.close() has run
    io,             \* how the dealer's latest socket call ended
    \* the connection
    c2s,            \* bytes in flight from the peer to the dealer
    s2c,            \* bytes in flight from the dealer to play_game
    peer_closed,    \* the peer has closed its end
    splits,         \* short reads made so far within the frame being read
    \* what an observer of the wire has seen in the current round
    sent,           \* the frames the dealer sent, in order
    recvd,          \* the kind of each complete Decision frame the dealer
                    \* read, in order: "hit", "stand", "other" or "bad"
    nResults,       \* result frames sent on the connection so far
    \* play_game: where it is, and its locals
    cpc,            \* the statement play_game is at ("absent": another peer)
    num_rounds,     \* the rounds play_game asks for
    c_r,            \* rounds play_game has completed
    cdata,          \* the bytes of the payload read so far
    csplits,        \* short reads made so far within that payload
    player_sum,     \* play_game's running total of its own hand
    cards_received, \* card payloads processed in this round
    stats,          \* the wins / losses / ties counters
    \* what an observer of play_game has seen in its current round
    cPrompts,       \* control frames play_game has processed
    cDecisions,     \* Decision frames play_game has sent
    \* start_server: its threads
    sessions,       \* the handle_client threads, each with its locals
    bpc,            \* the statement the broadcast thread is at
    \* start_client: its listening loop
    lpc,            \* the statement the loop is at
    dgram,          \* the datagram recvfrom returned last, and its sender
    opened,         \* the connections opened for that datagram, in order
    \* a receive loop on its own
    rx_loop,        \* the frame it reads: "request", "decision" or "payload"
    rx_whole,       \* the bytes that were in flight when it began
    rx_stream,      \* the bytes in flight now
    rx_data         \* the bytes it has accumulated

\* the locals of one round, and the rest of handle_client's state
hand == <<decision_data, player_cards, dealer_cards, p_sum, d_sum, res>>
ctl == <<pc, data, rounds, r, exit, closed, io>>
srv == <<hand, ctl>>
net == <<c2s, s2c, peer_closed, splits>>
wire == <<sent, recvd, nResults>>
cli == <<cpc, num_rounds, c_r, cdata, csplits, player_sum, cards_received,
         stats, cPrompts, cDecisions>>
\* the parts of the program that take no part in the one session above
house == <<sessions, bpc>>
lobby == <<lpc, dgram, opened>>
rx == <<rx_loop, rx_whole, rx_stream, rx_data>>
apart == <<house, lobby, rx>>
vars == <<srv, net, wire, cli, apart>>

\* the dealer's statements that call recv, and those that call sendall
RecvPcs == {"recv_req", "recv_dec"}
SendPcs == {"send_p1", "send_p2", "send_d", "send_ctrl", "send_hit", "send_res"}

(***************************************************************************)
(* Frames read back from the wire.                                         *)
(***************************************************************************)
IsCard(f) == PayloadRank(f) > 0
IsControl(f) == PayloadRank(f) = 0 /\ PayloadRes(f) = 0
IsResult(f) == PayloadRes(f) # 0

\* the frame carries the magic constant and the type of a payload
HasPayloadHeader(f) ==
    PayloadMagic(f) = MAGIC_COOKIE /\ PayloadType(f) = TYPE_PAYLOAD

\* the card a card frame carries
CardOf(f) == <<PayloadRank(f), PayloadSuit(f)>>

Count(frames, P(_)) == Len(SelectSeq(frames, P))
Last(s) == s[Len(s)]

\* a Decision frame as the protocol defines it: the magic constant, type 4
ValidDecision(f) ==
    /\ UnpackDecision(f).magic = MAGIC_COOKIE
    /\ UnpackDecision(f).m_type = TYPE_PAYLOAD
IsMalformed(f) == ~ValidDecision(f)

\* the kind of a complete Decision frame
KindOf(f) ==
    IF ~ValidDecision(f) THEN "bad"
    ELSE IF UnpackDecision(f).decision = HITTT THEN "hit"
    ELSE IF UnpackDecision(f).decision = STAND THEN "stand"
    ELSE "other"

IsBadKind(k) == k = "bad"
IsHitKind(k) == k = "hit"

\* nothing received
NoDatagram == [addr |-> "", data |-> <<>>]

\* the threads of handle_client that start_server may have running
SessionIds == 1..MaxSessions

\* a thread that has not been started
NoSession ==
    [pc |-> "free", rounds |-> 0, r |-> 0, player_cards |-> <<>>,
     dealer_cards |-> <<>>, exit |-> "running", closed |-> FALSE]

(***************************************************************************)
(* Initial state: the connection has just been accepted.                   *)
(***************************************************************************)
InitServer ==
    /\ pc = "recv_req"
    /\ data = <<>>
    /\ decision_data = <<>>
    /\ rounds = 0
    /\ r = 0
    /\ player_cards = <<>>
    /\ dealer_cards = <<>>
    /\ p_sum = 0
    /\ d_sum = 0
    /\ res = 0
    /\ exit = "running"
    /\ closed = FALSE
    /\ io = "ok"

InitNet ==
    /\ c2s = <<>>
    /\ s2c = <<>>
    /\ peer_closed = FALSE
    /\ splits = 0
    /\ sent = <<>>
    /\ recvd = <<>>
    /\ nResults = 0

InitNoClient ==
    /\ cpc = "absent"
    /\ num_rounds = 0
    /\ c_r = 0
    /\ cdata = <<>>
    /\ csplits = 0
    /\ player_sum = 0
    /\ cards_received = 0
    /\ stats = [wins |-> 0, losses |-> 0, ties |-> 0]
    /\ cPrompts = 0
    /\ cDecisions = 0

\* no thread of start_server is running
InitHouse ==
    /\ sessions = [i \in SessionIds |-> NoSession]
    /\ bpc = "sendto"

\* start_client has bound its socket and received nothing
InitLobby ==
    /\ lpc = "recvfrom"
    /\ dgram = NoDatagram
    /\ opened = <<>>

\* no loop is followed on its own
InitNoRx ==
    /\ rx_loop = "none"
    /\ rx_whole = <<>>
    /\ rx_stream = <<>>
    /\ rx_data = <<>>

InitApart == InitHouse /\ InitLobby /\ InitNoRx

Init == InitServer /\ InitNet /\ InitNoClient /\ InitApart

(***************************************************************************)
(* The socket calls of handle_client.                                      *)
(***************************************************************************)
\* the sizes recv(want) may return with avail bytes in flight: all it can,
\* or one byte (a short read) while the model's budget lasts
ChunkSizes(want, avail, made) ==
    {k \in 1..Min(want, avail) :
        k = Min(want, avail) \/ (made < MaxSplits /\ k = 1)}

\* conn.sendall(frame): the frame is on the wire; play_game, when it is the
\* peer, will receive it
sendall(frame) ==
    /\ sent' = Append(sent, frame)
    /\ s2c' = IF cpc = "absent" THEN s2c ELSE s2c \o frame
    /\ io' = "ok"

\* leaving the try block, by return, by an exception or off its end:
\* finally: conn.close().  handle_client is over and its locals with it.
Leave(how) ==
    /\ pc' = "done"
    /\ exit' = how
    /\ closed' = TRUE
    /\ decision_data' = <<>>
    /\ player_cards' = <<>>
    /\ dealer_cards' = <<>>
    /\ p_sum' = 0
    /\ d_sum' = 0
    /\ res' = 0

\* going on inside the try block
GoTo(label) ==
    /\ pc' = label
    /\ exit' = exit
    /\ closed' = closed

(***************************************************************************)
(* handle_client.  A step runs from one socket call or card draw to the    *)
(* next: the arithmetic and the tests between two of them are part of the  *)
(* step that leads to them.                                                *)
(***************************************************************************)
\* while len(data) < 38: chunk = conn.recv(38 - len(data));
\* if not chunk: return; data += chunk
RecvRequest ==
    /\ pc = "recv_req"
    /\ Len(data) < REQUEST_SIZE
    /\ \/ /\ c2s # <<>>
          /\ \E k \in ChunkSizes(REQUEST_SIZE - Len(data), Len(c2s), splits) :
                /\ data' = data \o SubSeq(c2s, 1, k)
                /\ c2s' = SubSeq(c2s, k + 1, Len(c2s))
                /\ splits' = IF Len(data) + k < REQUEST_SIZE
                             THEN splits + 1 ELSE 0
                /\ GoTo(IF Len(data) + k < REQUEST_SIZE
                        THEN "recv_req" ELSE "unpack_req")
          /\ io' = "ok"
          /\ UNCHANGED hand
       \/ /\ c2s = <<>>
          /\ peer_closed
          /\ io' = "eof"
          /\ Leave("return")
          /\ UNCHANGED <<data, c2s, splits>>
    /\ UNCHANGED <<rounds, r, s2c, peer_closed, wire, cli, apart>>

\* a check of the magic constant that forgets the type byte
RequestRejectedByMagic(m) == m.magic # MAGIC_COOKIE

\* magic, m_type, rounds, name = struct.unpack(...)
\* if magic != MAGIC_COOKIE or m_type != 0x3: return
RequestRejected(m) == m.magic # MAGIC_COOKIE \/ m.m_type # TYPE_REQUEST

\* the unpack, the magic / type check, and name.decode()
CheckRequest ==
    /\ pc = "unpack_req"
    /\ LET m == UnpackRequest(data) IN
        /\ rounds' = m.rounds
        /\ IF RequestRejected(m)
           THEN Leave("return")
           ELSE IF ~Decodes(m.name)
           THEN Leave("exception")
           ELSE GoTo("for_loop") /\ UNCHANGED hand
    /\ UNCHANGED <<data, r, io, net, wire, cli, apart>>

\* a loop that runs one round too many
MoreRoundsOffByOne == r <= rounds

\* for r in range(rounds): the loop has another round to run
MoreRounds == r < rounds

\* for r in range(rounds): the loop goes into its next round.  (The locals
\* of the round keep the last round's values in the code until they are
\* assigned again, and are not read before that; the model clears them
\* here, and the logs of the round with them.)
StartRound ==
    /\ pc = "for_loop"
    /\ MoreRounds
    /\ player_cards' = <<>>
    /\ dealer_cards' = <<>>
    /\ p_sum' = 0
    /\ d_sum' = 0
    /\ res' = 0
    /\ decision_data' = <<>>
    /\ sent' = <<>>
    /\ recvd' = <<>>
    /\ GoTo("deal")
    /\ UNCHANGED <<data, rounds, r, io, net, nResults, cli, apart>>

\* player_cards = [get_card(), get_card()];
\* dealer_cards = [get_card(), get_card()]
Deal ==
    /\ pc = "deal"
    /\ \E c1 \in Deck, c2 \in Deck, c3 \in Deck, c4 \in Deck :
        /\ player_cards' = <<c1, c2>>
        /\ dealer_cards' = <<c3, c4>>
    /\ GoTo("send_p1")
    /\ UNCHANGED <<decision_data, p_sum, d_sum, res,
                   data, rounds, r, io, net, wire, cli, apart>>

\* for rank, suit in player_cards: conn.sendall(...): the first card
SendPlayerCard1 ==
    /\ pc = "send_p1"
    /\ sendall(CardFrame(player_cards[1]))
    /\ GoTo("send_p2")
    /\ UNCHANGED <<hand, data, rounds, r, c2s, peer_closed, splits,
                   recvd, nResults, cli, apart>>

\* the second card
SendPlayerCard2 ==
    /\ pc = "send_p2"
    /\ sendall(CardFrame(player_cards[2]))
    /\ GoTo("send_d")
    /\ UNCHANGED <<hand, data, rounds, r, c2s, peer_closed, splits,
                   recvd, nResults, cli, apart>>

\* a bust test that lets a total of 22 through
BustedAbove22(total) == total > BUST + 1

\* a bust test that never fires
BustedNever(total) == FALSE

\* if p_sum > 21: break
Busted(total) == total > BUST

\* a dealer that plays its hand whether the player is bust or not
DealerMustDrawAlways(p, d) == d < DEALER_STAND

\* if p_sum <= 21: while d_sum < 17:
DealerMustDraw(p, d) == p <= BUST /\ d < DEALER_STAND

\* a comparison that looks at the dealer's bust before the player's
ResultOfDealerBustFirst(p, d) ==
    IF d > BUST THEN WIN
    ELSE IF p > BUST THEN LOSS
    ELSE IF p > d THEN WIN
    ELSE IF d > p THEN LOSS
    ELSE TIE

\* a comparison that starts from the totals being equal
ResultOfEqualFirst(p, d) ==
    IF p = d THEN TIE
    ELSE IF p > BUST THEN LOSS
    ELSE IF d > BUST \/ p > d THEN WIN
    ELSE LOSS

\* res = 0x1; if p_sum > 21: res = 0x2; elif d_sum > 21 or p_sum > d_sum:
\* res = 0x3; elif d_sum > p_sum: res = 0x2
ResultOf(p, d) ==
    IF p > BUST THEN LOSS
    ELSE IF d > BUST \/ p > d THEN WIN
    ELSE IF d > p THEN LOSS
    ELSE TIE

\* The decision loop is over, by a bust or a Stand, or the dealer has drawn:
\* with the totals p and d, either the dealer has a card to draw or the
\* result is computed and is next to be sent.
Settle(p, d) ==
    /\ p_sum' = p
    /\ d_sum' = d
    /\ IF DealerMustDraw(p, d)
       THEN res' = res /\ GoTo("dealer_loop")
       ELSE res' = ResultOf(p, d) /\ GoTo("send_res")

\* while True: p_sum = sum(...); if p_sum > 21: break   (and, after the
\* break, p_sum = sum(...); d_sum = sum(...))
LoopTop ==
    IF Busted(HandTotal(player_cards))
    THEN Settle(HandTotal(player_cards), HandTotal(dealer_cards))
    ELSE /\ p_sum' = HandTotal(player_cards)
         /\ d_sum' = d_sum
         /\ res' = res
         /\ GoTo("send_ctrl")

\* the dealer shows the other one of its two cards
UpCardIsSecond == dealer_cards[2]

\* the card the dealer shows: the code names dealer_cards[0]
UpCard == dealer_cards[1]

\* conn.sendall(... dealer_cards[0][0], dealer_cards[0][1])
SendUpCard ==
    /\ pc = "send_d"
    /\ sendall(CardFrame(UpCard))
    /\ LoopTop
    /\ UNCHANGED <<decision_data, player_cards, dealer_cards,
                   data, rounds, r, c2s, peer_closed, splits,
                   recvd, nResults, cli, apart>>

\* a dealer that sends its prompt twice
SendControlTwice ==
    /\ pc = "send_ctrl"
    /\ sent' = sent \o <<ControlFrame, ControlFrame>>
    /\ s2c' = IF cpc = "absent" THEN s2c ELSE s2c \o ControlFrame \o ControlFrame
    /\ io' = "ok"
    /\ decision_data' = <<>>
    /\ GoTo("recv_dec")
    /\ UNCHANGED <<player_cards, dealer_cards, p_sum, d_sum, res,
                   data, rounds, r, c2s, peer_closed, splits,
                   recvd, nResults, cli, apart>>

\* conn.sendall(control frame); decision_data = b""
SendControl ==
    /\ pc = "send_ctrl"
    /\ sendall(ControlFrame)
    /\ decision_data' = <<>>
    /\ GoTo("recv_dec")
    /\ UNCHANGED <<player_cards, dealer_cards, p_sum, d_sum, res,
                   data, rounds, r, c2s, peer_closed, splits,
                   recvd, nResults, cli, apart>>

\* while len(decision_data) < 10: chunk = conn.recv(10 - len(decision_data));
\* if not chunk: return; decision_data += chunk
RecvDecision ==
    /\ pc = "recv_dec"
    /\ Len(decision_data) < DECISION_SIZE
    /\ \/ /\ c2s # <<>>
          /\ \E k \in ChunkSizes(DECISION_SIZE - Len(decision_data), Len(c2s), splits) :
                /\ decision_data' = decision_data \o SubSeq(c2s, 1, k)
                /\ c2s' = SubSeq(c2s, k + 1, Len(c2s))
                /\ splits' = IF Len(decision_data) + k < DECISION_SIZE
                             THEN splits + 1 ELSE 0
                /\ GoTo(IF Len(decision_data) + k < DECISION_SIZE
                        THEN "recv_dec" ELSE "unpack_dec")
                /\ recvd' = IF Len(decision_data) + k < DECISION_SIZE
                            THEN recvd
                            ELSE Append(recvd,
                                        KindOf(decision_data \o SubSeq(c2s, 1, k)))
          /\ io' = "ok"
          /\ UNCHANGED <<player_cards, dealer_cards, p_sum, d_sum, res>>
       \/ /\ c2s = <<>>
          /\ peer_closed
          /\ io' = "eof"
          /\ Leave("return")
          /\ UNCHANGED <<c2s, splits, recvd>>
    /\ UNCHANGED <<data, rounds, r, s2c, peer_closed, sent, nResults, cli, apart>>

\* if magic2 != MAGIC_COOKIE or m_type2 != 0x4
DecisionRejected(m) == m.magic # MAGIC_COOKIE \/ m.m_type # TYPE_PAYLOAD

\* a comparison that ignores the case of the letters
IsHitCommandAnyCase(decision) == decision \in {HITTT, LOWER_HITTT}

\* if decision == b"Hittt"
IsHitCommand(decision) == decision = HITTT

\* In the three actions that follow the unpack, decision_data is cleared:
\* the code keeps it, and does not read it again before line 101 resets it.

\* ...: continue   (the continue is the outer while True's: the decision
\* loop starts over at its top)
DiscardDecision ==
    /\ pc = "unpack_dec"
    /\ DecisionRejected(UnpackDecision(decision_data))
    /\ decision_data' = <<>>
    /\ LoopTop
    /\ UNCHANGED <<player_cards, dealer_cards,
                   data, rounds, r, io, net, wire, cli, apart>>

\* new_c = get_card(); player_cards.append(new_c)
Hit ==
    /\ pc = "unpack_dec"
    /\ ~DecisionRejected(UnpackDecision(decision_data))
    /\ IsHitCommand(UnpackDecision(decision_data).decision)
    /\ \E new_c \in Deck : player_cards' = Append(player_cards, new_c)
    /\ decision_data' = <<>>
    /\ GoTo("send_hit")
    /\ UNCHANGED <<dealer_cards, p_sum, d_sum, res,
                   data, rounds, r, io, net, wire, cli, apart>>

\* conn.sendall(... new_c[0], new_c[1])
SendHitCard ==
    /\ pc = "send_hit"
    /\ sendall(CardFrame(player_cards[Len(player_cards)]))
    /\ LoopTop
    /\ UNCHANGED <<decision_data, player_cards, dealer_cards,
                   data, rounds, r, c2s, peer_closed, splits,
                   recvd, nResults, cli, apart>>

\* else: break   (any command that is not "Hittt"); p_sum = sum(...);
\* d_sum = sum(...)
Stand ==
    /\ pc = "unpack_dec"
    /\ ~DecisionRejected(UnpackDecision(decision_data))
    /\ ~IsHitCommand(UnpackDecision(decision_data).decision)
    /\ decision_data' = <<>>
    /\ Settle(HandTotal(player_cards), HandTotal(dealer_cards))
    /\ UNCHANGED <<player_cards, dealer_cards,
                   data, rounds, r, io, net, wire, cli, apart>>

\* new_c = get_card(); dealer_cards.append(new_c); d_sum = sum(...)
DealerDraw ==
    /\ pc = "dealer_loop"
    /\ \E new_c \in Deck :
        /\ dealer_cards' = Append(dealer_cards, new_c)
        /\ Settle(p_sum, HandTotal(Append(dealer_cards, new_c)))
    /\ UNCHANGED <<decision_data, player_cards,
                   data, rounds, r, io, net, wire, cli, apart>>

\* conn.sendall(... res, 0, 0); the loop body ends
SendResult ==
    /\ pc = "send_res"
    /\ sendall(ResultFrame(res))
    /\ nResults' = nResults + 1
    /\ r' = r + 1
    /\ GoTo("for_loop")
    /\ UNCHANGED <<hand, data, rounds, c2s, peer_closed, splits, recvd, cli, apart>>

\* the for loop is exhausted: print("Finished session ...")
Finish ==
    /\ pc = "for_loop"
    /\ ~MoreRounds
    /\ Leave("finished")
    /\ UNCHANGED <<data, rounds, r, io, net, wire, cli, apart>>

(***************************************************************************)
(* Failures of the dealer's socket calls.                                  *)
(***************************************************************************)
\* A recv times out when no byte arrives for ten seconds: nothing is in
\* flight, or the rest of a frame is held up behind its first bytes.

\* conn.recv raises socket.timeout while the request is read: nothing
\* catches it before the outer except
RequestTimeout ==
    /\ pc = "recv_req"
    /\ ~peer_closed
    /\ c2s = <<>> \/ data # <<>>
    /\ io' = "timeout"
    /\ Leave("exception")
    /\ UNCHANGED <<data, rounds, r, net, wire, cli, apart>>

\* a timeout handler that starts the read of the frame over
DecisionTimeoutRestartsRead ==
    /\ pc = "recv_dec"
    /\ ~peer_closed
    /\ c2s = <<>> \/ decision_data # <<>>
    /\ io' = "timeout"
    /\ decision_data' = <<>>
    /\ GoTo("recv_dec")
    /\ UNCHANGED <<player_cards, dealer_cards, p_sum, d_sum, res,
                   data, rounds, r, net, wire, cli, apart>>

\* except socket.timeout: continue   (inside the decision read loop)
DecisionTimeout ==
    /\ pc = "recv_dec"
    /\ ~peer_closed
    /\ c2s = <<>> \/ decision_data # <<>>
    /\ io' = "timeout"
    /\ GoTo("recv_dec")
    /\ UNCHANGED <<hand, data, rounds, r, net, wire, cli, apart>>

\* an exception handler that logs the failure and lets the session go on
SocketErrorSwallowed ==
    /\ pc \in RecvPcs \cup SendPcs
    /\ io' = "error"
    /\ GoTo(pc)
    /\ UNCHANGED <<hand, data, rounds, r, net, wire, cli, apart>>

\* any other exception of recv or sendall (a reset connection, a broken
\* pipe, a send that times out): except Exception
SocketError ==
    /\ pc \in RecvPcs \cup SendPcs
    /\ io' = "error"
    /\ Leave("exception")
    /\ UNCHANGED <<data, rounds, r, net, wire, cli, apart>>

(***************************************************************************)
(* The arbitrary peer of Spec.                                             *)
(***************************************************************************)
\* a type byte that is neither a request's nor a payload's (an Offer's)
TYPE_OFFER == 2

\* the round counts asked for: none, one, and the most the model follows
RoundCounts == {0, 1, MaxRounds}

RequestFrames ==
    {PackRequest(MAGIC_COOKIE, TYPE_REQUEST, n, TEAM_NAME_FIELD) : n \in RoundCounts}
    \cup {PackRequest(BAD_MAGIC, TYPE_REQUEST, 1, TEAM_NAME_FIELD),
          PackRequest(MAGIC_COOKIE, TYPE_OFFER, 1, TEAM_NAME_FIELD),
          PackRequest(MAGIC_COOKIE, TYPE_REQUEST, 1, BAD_NAME_FIELD)}

DecisionFrames ==
    {PackDecision(MAGIC_COOKIE, TYPE_PAYLOAD, HITTT),
     PackDecision(MAGIC_COOKIE, TYPE_PAYLOAD, STAND),
     PackDecision(MAGIC_COOKIE, TYPE_PAYLOAD, LOWER_HITTT),
     PackDecision(BAD_MAGIC, TYPE_PAYLOAD, HITTT),
     PackDecision(MAGIC_COOKIE, TYPE_REQUEST, STAND)}

\* how much of a frame a peer that dies has written: the magic constant
\* alone, or all but the last byte
PartialLengths(size) == {Len(MAGIC_COOKIE), size - 1}

\* the peer writes a 38-byte frame
PeerSendRequest ==
    /\ cpc = "absent"
    /\ pc = "recv_req" /\ data = <<>>
    /\ c2s = <<>> /\ ~peer_closed
    /\ \E f \in RequestFrames : c2s' = f
    /\ UNCHANGED <<apart, srv, s2c, peer_closed, splits, wire, cli, apart>>

\* the malformed frames of a round come in one burst of MaxBad at most
MayMalform ==
    IF Count(recvd, IsBadKind) = 0 THEN MaxBad > 0
    ELSE Count(recvd, IsBadKind) < MaxBad /\ Last(recvd) = "bad"

\* the peer writes a 10-byte frame: in answer to a prompt, or before the
\* prompt is sent.  (The dealer reads c2s only in recv, so a frame written
\* earlier still is to it the same as one written just before the prompt.)
PeerSendDecision ==
    /\ cpc = "absent"
    /\ pc \in {"send_ctrl", "recv_dec"}
    /\ c2s = <<>> /\ decision_data = <<>> /\ ~peer_closed
    /\ \E f \in DecisionFrames :
        /\ IsMalformed(f) => MayMalform
        /\ c2s' = f
    /\ UNCHANGED <<apart, srv, s2c, peer_closed, splits, wire, cli, apart>>

\* the peer closes its end; the dealer can notice only in a recv
PeerClose ==
    /\ cpc = "absent"
    /\ pc \in RecvPcs
    /\ c2s = <<>> /\ ~peer_closed
    /\ peer_closed' = TRUE
    /\ UNCHANGED <<apart, srv, c2s, s2c, splits, wire, cli, apart>>

\* the peer dies in the middle of a frame: a proper prefix arrives, then
\* the end of the stream
PeerDies ==
    /\ cpc = "absent"
    /\ ~peer_closed /\ c2s = <<>>
    /\ \/ /\ pc = "recv_req" /\ data = <<>>
          /\ \E k \in PartialLengths(REQUEST_SIZE) :
                c2s' = SubSeq(PackRequest(MAGIC_COOKIE, TYPE_REQUEST, 1,
                                          TEAM_NAME_FIELD), 1, k)
       \/ /\ pc = "recv_dec" /\ decision_data = <<>>
          /\ \E k \in PartialLengths(DECISION_SIZE) :
                c2s' = SubSeq(PackDecision(MAGIC_COOKIE, TYPE_PAYLOAD, HITTT), 1, k)
    /\ peer_closed' = TRUE
    /\ UNCHANGED <<apart, srv, s2c, splits, wire, cli, apart>>

(***************************************************************************)
(* The dealer against an arbitrary peer.                                   *)
(***************************************************************************)
\* handle_client but for its answer to a malformed Decision
DealerCore ==
    \/ RecvRequest \/ CheckRequest \/ StartRound \/ Deal
    \/ SendPlayerCard1 \/ SendPlayerCard2 \/ SendUpCard
    \/ SendControl \/ RecvDecision
    \/ Hit \/ SendHitCard \/ Stand
    \/ DealerDraw \/ SendResult
    \/ Finish

Dealer == DealerCore \/ DiscardDecision

Faults == RequestTimeout \/ DecisionTimeout \/ SocketError

Peer == PeerSendRequest \/ PeerSendDecision \/ PeerClose \/ PeerDies

Next == Dealer \/ Faults \/ Peer

Spec == Init /\ [][Next]_vars

(***************************************************************************)
(* The dealer against a peer that keeps to the protocol: it sends a valid  *)
(* request and answers every prompt with a complete valid Decision frame,  *)
(* and no socket call fails.  The dealer takes its next step whenever it   *)
(* has one (the thread is scheduled, the ten-second timeout of its reads   *)
(* is longer than the answer takes), and the peer does answer.             *)
(***************************************************************************)
\* the peer writes a valid request
PeerAsks ==
    /\ cpc = "absent"
    /\ pc = "recv_req" /\ data = <<>>
    /\ c2s = <<>> /\ ~peer_closed
    /\ \E n \in RoundCounts :
        c2s' = PackRequest(MAGIC_COOKIE, TYPE_REQUEST, n, TEAM_NAME_FIELD)
    /\ UNCHANGED <<srv, s2c, peer_closed, splits, wire, cli, apart>>

\* the peer answers the prompt with a valid Decision frame, whatever its
\* command
PeerAnswers ==
    /\ cpc = "absent"
    /\ pc = "recv_dec"
    /\ c2s = <<>> /\ decision_data = <<>> /\ ~peer_closed
    /\ \E f \in DecisionFrames :
        /\ ValidDecision(f)
        /\ c2s' = f
    /\ UNCHANGED <<srv, s2c, peer_closed, splits, wire, cli, apart>>

GoodPeer == PeerAsks \/ PeerAnswers

LiveNext == DealerCore \/ GoodPeer

LiveSpec ==
    /\ Init
    /\ [][LiveNext]_vars
    /\ WF_vars(DealerCore)
    /\ WF_vars(GoodPeer)

(***************************************************************************)
(* play_game, statement by statement.                                      *)
(***************************************************************************)
\* a valuation that counts the ace as 1
get_card_value_ace_low(rank) ==
    IF rank >= 10 THEN 10
    ELSE rank

\* get_card_value of client.py
get_card_value(rank) ==
    IF rank = 1 THEN 11
    ELSE IF rank >= 10 THEN 10
    ELSE rank

\* tcp.connect(...); tcp.sendall(struct.pack('!IBB32s', MAGIC_COOKIE, 0x3,
\* num_rounds, TEAM_NAME...))
ClientSendRequest ==
    /\ cpc = "connect"
    /\ c2s' = c2s \o PackRequest(MAGIC_COOKIE, TYPE_REQUEST, num_rounds,
                                 TEAM_NAME_FIELD)
    /\ cpc' = "for_loop"
    /\ UNCHANGED <<apart, srv, s2c, peer_closed, splits, wire, num_rounds, c_r, cdata,
                   csplits, player_sum, cards_received, stats, cPrompts,
                   cDecisions>>

\* for r in range(num_rounds): player_sum = 0; cards_received = 0
ClientStartRound ==
    /\ cpc = "for_loop"
    /\ c_r < num_rounds
    /\ player_sum' = 0
    /\ cards_received' = 0
    /\ cdata' = <<>>
    /\ cPrompts' = 0
    /\ cDecisions' = 0
    /\ cpc' = "recv"
    /\ UNCHANGED <<apart, srv, net, wire, num_rounds, c_r, csplits, stats>>

\* the for loop is exhausted: the with block closes the socket
ClientFinish ==
    /\ cpc = "for_loop"
    /\ c_r >= num_rounds
    /\ cpc' = "done"
    /\ peer_closed' = TRUE
    /\ UNCHANGED <<apart, srv, c2s, s2c, splits, wire, num_rounds, c_r, cdata, csplits,
                   player_sum, cards_received, stats, cPrompts, cDecisions>>

\* while len(data) < 9: chunk = tcp.recv(9 - len(data));
\* if not chunk: raise ConnectionError(...); data += chunk
ClientRecv ==
    /\ cpc = "recv"
    /\ Len(cdata) < PAYLOAD_SIZE
    /\ \/ /\ s2c # <<>>
          /\ \E k \in ChunkSizes(PAYLOAD_SIZE - Len(cdata), Len(s2c), csplits) :
                /\ cdata' = cdata \o SubSeq(s2c, 1, k)
                /\ s2c' = SubSeq(s2c, k + 1, Len(s2c))
                /\ csplits' = IF Len(cdata) + k < PAYLOAD_SIZE
                              THEN csplits + 1 ELSE 0
                /\ cpc' = IF Len(cdata) + k < PAYLOAD_SIZE
                          THEN "recv" ELSE "process"
          /\ UNCHANGED peer_closed
       \/ /\ s2c = <<>>
          /\ closed
          /\ cpc' = "done"
          /\ peer_closed' = TRUE
          /\ UNCHANGED <<cdata, s2c, csplits>>
    /\ UNCHANGED <<apart, srv, c2s, splits, wire, num_rounds, c_r, player_sum,
                   cards_received, stats, cPrompts, cDecisions>>

\* a test that takes every payload with result 0 for a prompt
IsPromptAnyRank(m) == m.res = 0

\* if res == 0 and rank == 0: the payload is a prompt
IsPrompt(m) == m.res = 0 /\ m.rank = 0

\* the payload is unpacked and handled, up to the point where play_game
\* asks the user for a choice or the round ends
ClientProcess ==
    /\ cpc = "process"
    /\ LET m == UnpackPayload(cdata)
           ok == m.magic = MAGIC_COOKIE /\ m.m_type = TYPE_PAYLOAD
           card == ok /\ m.rank > 0
           n == IF card THEN cards_received + 1 ELSE cards_received
       IN
        /\ cards_received' = n
        /\ player_sum' = IF card /\ n # 3
                         THEN player_sum + get_card_value(m.rank)
                         ELSE player_sum
        /\ cPrompts' = IF ok /\ IsControl(cdata) THEN cPrompts + 1 ELSE cPrompts
        /\ stats' = IF ok /\ ~IsPrompt(m) /\ m.res = TIE
                        THEN [stats EXCEPT !.ties = @ + 1]
                    ELSE IF ok /\ ~IsPrompt(m) /\ m.res = LOSS
                        THEN [stats EXCEPT !.losses = @ + 1]
                    ELSE IF ok /\ ~IsPrompt(m) /\ m.res = WIN
                        THEN [stats EXCEPT !.wins = @ + 1]
                    ELSE stats
        /\ c_r' = IF ok /\ ~IsPrompt(m) /\ m.res # 0 THEN c_r + 1 ELSE c_r
        /\ cpc' = IF ok /\ IsPrompt(m) THEN "input"
                  ELSE IF ok /\ m.res # 0 THEN "for_loop"
                  ELSE "recv"
    /\ cdata' = <<>>
    /\ UNCHANGED <<apart, srv, net, wire, num_rounds, csplits, cDecisions>>

\* a play_game that takes the user's choice and sends nothing
ClientDecideSilent ==
    /\ cpc = "input"
    /\ cDecisions' = cDecisions + 1
    /\ cpc' = "recv"
    /\ UNCHANGED <<apart, srv, net, wire, num_rounds, c_r, cdata,
                   csplits, player_sum, cards_received, stats, cPrompts>>

\* choice = input(...); msg = "Hittt" if choice == 'h' else "Stand";
\* tcp.sendall(struct.pack('!IB5s', MAGIC_COOKIE, 0x4, msg.encode()))
ClientDecide ==
    /\ cpc = "input"
    /\ \E choice \in {"h", "s"} :
        c2s' = c2s \o PackDecision(MAGIC_COOKIE, TYPE_PAYLOAD,
                                   IF choice = "h" THEN HITTT ELSE STAND)
    /\ cDecisions' = cDecisions + 1
    /\ cpc' = "recv"
    /\ UNCHANGED <<apart, srv, s2c, peer_closed, splits, wire, num_rounds, c_r, cdata,
                   csplits, player_sum, cards_received, stats, cPrompts>>

(***************************************************************************)
(* The dealer against play_game, over a connection that does not fail.     *)
(* play_game sends no malformed Decision, so DiscardDecision has no part   *)
(* here; a timeout of the dealer's recv while the user thinks changes      *)
(* nothing but io, and is left out.                                        *)
(***************************************************************************)
InitClient ==
    /\ cpc = "connect"
    /\ num_rounds \in RoundCounts
    /\ c_r = 0
    /\ cdata = <<>>
    /\ csplits = 0
    /\ player_sum = 0
    /\ cards_received = 0
    /\ stats = [wins |-> 0, losses |-> 0, ties |-> 0]
    /\ cPrompts = 0
    /\ cDecisions = 0

GameInit == InitServer /\ InitNet /\ InitClient /\ InitApart

Player ==
    \/ ClientSendRequest \/ ClientStartRound \/ ClientFinish
    \/ ClientRecv \/ ClientProcess \/ ClientDecide

GameNext == DealerCore \/ Player

GameSpec == GameInit /\ [][GameNext]_vars

(***************************************************************************)
(* The same game, when it is not the first that start_client plays: stats  *)
(* is a global of client.py, and play_game finds in it what the sessions   *)
(* before have left there.                                                 *)
(***************************************************************************)
\* the counters after three earlier rounds
PreviousStats == [wins |-> 2, losses |-> 0, ties |-> 1]

SeasonInit ==
    /\ InitServer /\ InitNet /\ InitApart
    /\ cpc = "connect"
    /\ num_rounds \in RoundCounts
    /\ c_r = 0
    /\ cdata = <<>>
    /\ csplits = 0
    /\ player_sum = 0
    /\ cards_received = 0
    /\ stats = PreviousStats
    /\ cPrompts = 0
    /\ cDecisions = 0

SeasonSpec == SeasonInit /\ [][GameNext]_vars

(***************************************************************************)
(* start_server: the accept loop, the broadcast thread and the threads of  *)
(* handle_client it starts, one for each connection.  A thread's locals    *)
(* and its connection are one record of sessions.  Here a step of a thread *)
(* runs from one blocking read (or card draw of the dealer) to the next,   *)
(* and a read returns a whole frame: the receive loops and the frames on   *)
(* the wire are followed, byte by byte, in the one session above.          *)
(***************************************************************************)
\* the one session above takes no part
single == <<srv, net, wire, cli>>

\* the cards these threads draw: a number card and a face card
SessionDeck == {<<6, 1>>, <<13, 3>>}

\* the round count their peers ask for
SessionRoundCounts == {1}

\* what a thread's first read returns: a request, or 38 bytes that are
\* none (a wrong magic constant)
SessionRequests ==
    {PackRequest(MAGIC_COOKIE, TYPE_REQUEST, n, TEAM_NAME_FIELD) :
        n \in SessionRoundCounts}
    \cup {PackRequest(BAD_MAGIC, TYPE_REQUEST, 1, TEAM_NAME_FIELD)}

\* what a read of a Decision returns
SessionDecisions ==
    {PackDecision(MAGIC_COOKIE, TYPE_PAYLOAD, HITTT),
     PackDecision(MAGIC_COOKIE, TYPE_PAYLOAD, STAND),
     PackDecision(BAD_MAGIC, TYPE_PAYLOAD, HITTT)}

\* a thread that is in its try block
Running(s) == s.pc \notin {"free", "done"}

\* finally: conn.close(); the thread is over and its locals with it
Ended(how) == [NoSession EXCEPT !.pc = "done", !.exit = how, !.closed = TRUE]

\* the decision loop is over, or the dealer has drawn: the dealer has a
\* card to draw, or the result is sent and the round is over (the hands
\* are not read again)
Settled(s) ==
    IF DealerMustDraw(HandTotal(s.player_cards), HandTotal(s.dealer_cards))
    THEN [s EXCEPT !.pc = "dealer_loop"]
    ELSE [s EXCEPT !.pc = "for_loop", !.r = @ + 1,
                   !.player_cards = <<>>, !.dealer_cards = <<>>]

\* while True: p_sum = sum(...); if p_sum > 21: break; conn.sendall(prompt)
AtLoopTop(s) ==
    IF Busted(HandTotal(s.player_cards))
    THEN Settled(s)
    ELSE [s EXCEPT !.pc = "recv_dec"]

\* a server that calls handle_client in the accept loop itself
AcceptInline(i) ==
    /\ \A j \in SessionIds : ~Running(sessions[j])
    /\ sessions[i].pc \in {"free", "done"}
    /\ sessions' = [sessions EXCEPT ![i] = [NoSession EXCEPT !.pc = "recv_req"]]
    /\ UNCHANGED <<bpc, lobby, rx, single>>

\* conn, addr = tcp.accept();
\* threading.Thread(target=handle_client, args=(conn, addr), ...).start()
Accept(i) ==
    /\ sessions[i].pc \in {"free", "done"}
    /\ sessions' = [sessions EXCEPT ![i] = [NoSession EXCEPT !.pc = "recv_req"]]
    /\ UNCHANGED <<bpc, lobby, rx, single>>

\* the request is read: an empty read, an invalid request, or the rounds
ServeRequest(i) ==
    /\ sessions[i].pc = "recv_req"
    /\ \/ sessions' = [sessions EXCEPT ![i] = Ended("return")]
       \/ \E f \in SessionRequests :
            sessions' = [sessions EXCEPT ![i] =
                IF RequestRejected(UnpackRequest(f)) THEN Ended("return")
                ELSE IF ~Decodes(UnpackRequest(f).name) THEN Ended("exception")
                ELSE [@ EXCEPT !.pc = "for_loop",
                               !.rounds = UnpackRequest(f).rounds]]
    /\ UNCHANGED <<bpc, lobby, rx, single>>

\* for r in range(rounds): the hands are dealt, three cards are sent
ServeDeal(i) ==
    /\ sessions[i].pc = "for_loop"
    /\ sessions[i].r < sessions[i].rounds
    /\ \E c1 \in SessionDeck, c2 \in SessionDeck,
          c3 \in SessionDeck, c4 \in SessionDeck :
        sessions' = [sessions EXCEPT ![i] =
            AtLoopTop([@ EXCEPT !.player_cards = <<c1, c2>>,
                                !.dealer_cards = <<c3, c4>>])]
    /\ UNCHANGED <<bpc, lobby, rx, single>>

\* the Decision is read: an empty read, a frame to discard, a Hit (a card
\* is drawn and sent) or a Stand
ServeDecision(i) ==
    /\ sessions[i].pc = "recv_dec"
    /\ \/ sessions' = [sessions EXCEPT ![i] = Ended("return")]
       \/ \E f \in SessionDecisions, new_c \in SessionDeck :
            sessions' = [sessions EXCEPT ![i] =
                IF DecisionRejected(UnpackDecision(f)) THEN AtLoopTop(@)
                ELSE IF IsHitCommand(UnpackDecision(f).decision)
                THEN AtLoopTop([@ EXCEPT !.player_cards = Append(@, new_c)])
                ELSE Settled(@)]
    /\ UNCHANGED <<bpc, lobby, rx, single>>

\* new_c = get_card(); dealer_cards.append(new_c)
ServeDealerDraw(i) ==
    /\ sessions[i].pc = "dealer_loop"
    /\ \E new_c \in SessionDeck :
        sessions' = [sessions EXCEPT ![i] =
            Settled([@ EXCEPT !.dealer_cards = Append(@, new_c)])]
    /\ UNCHANGED <<bpc, lobby, rx, single>>

\* the for loop is exhausted
ServeFinish(i) ==
    /\ sessions[i].pc = "for_loop"
    /\ sessions[i].r >= sessions[i].rounds
    /\ sessions' = [sessions EXCEPT ![i] = Ended("finished")]
    /\ UNCHANGED <<bpc, lobby, rx, single>>

\* a socket call of the thread raises: except Exception
ServeFails(i) ==
    /\ Running(sessions[i])
    /\ sessions[i].pc # "for_loop" \/ sessions[i].r < sessions[i].rounds
    /\ sessions' = [sessions EXCEPT ![i] = Ended("exception")]
    /\ UNCHANGED <<bpc, lobby, rx, single>>

\* udp.sendto(packet, ('255.255.255.255', UDP_PORT))
BroadcastOffer ==
    /\ bpc = "sendto"
    /\ bpc' = "sleep"
    /\ UNCHANGED <<sessions, lobby, rx, single>>

\* time.sleep(1)
BroadcastSleep ==
    /\ bpc = "sleep"
    /\ bpc' = "sendto"
    /\ UNCHANGED <<sessions, lobby, rx, single>>

AcceptLoop == \E i \in SessionIds : Accept(i)

\* a step of the thread i
Serve(i) ==
    \/ ServeRequest(i) \/ ServeDeal(i) \/ ServeDecision(i)
    \/ ServeDealerDraw(i) \/ ServeFinish(i) \/ ServeFails(i)

Threads == \E i \in SessionIds : Serve(i)

Broadcaster == BroadcastOffer \/ BroadcastSleep

ServerNext == AcceptLoop \/ Threads \/ Broadcaster

ServerSpec == Init /\ [][ServerNext]_vars

(***************************************************************************)
(* start_client: the loop that listens for offers.                         *)
(***************************************************************************)
\* the size of an Offer
OFFER_SIZE == 39

\* struct.pack('!IBH32s', magic, type, port, name): the port is two bytes
PackOffer(magic, m_type, port, name) ==
    magic \o <<m_type, port \div 256, port % 256>> \o name

\* struct.unpack('!IBH32s', data[:39])
UnpackOffer(d) ==
    [magic |-> SubSeq(d, 1, 4), m_type |-> d[5], port |-> d[6] * 256 + d[7],
     srv_name |-> SubSeq(d, 8, OFFER_SIZE)]

\* srv_name.split(b'\x00', 1)[0]: the bytes before the first zero byte
RECURSIVE UpToNul(_)
UpToNul(bytes) ==
    IF bytes = <<>> \/ bytes[1] = 0 THEN <<>>
    ELSE <<bytes[1]>> \o UpToNul(Tail(bytes))

\* .decode(errors='ignore'): the bytes that are not UTF-8 are dropped.
\* Every identity field of the model is ASCII or holds 0xff, and for those
\* the bytes dropped are the bytes from 128 on.
IsAscii(b) == b < 128
DecodeIgnore(bytes) == SelectSeq(bytes, IsAscii)

\* TEAM_NAME, "badaboom_sapir_batel", as its code points
TEAM_NAME == UpToNul(TEAM_NAME_FIELD)

\* identity fields: another name of the same length, the name followed by
\* the byte 0xff, and the name with a letter after its closing zero byte
OTHER_NAME_FIELD == [TEAM_NAME_FIELD EXCEPT ![Len(TEAM_NAME)] = 109]
FF_NAME_FIELD == [TEAM_NAME_FIELD EXCEPT ![Len(TEAM_NAME) + 1] = 255]
TAIL_NAME_FIELD == [TEAM_NAME_FIELD EXCEPT ![Len(TEAM_NAME) + 2] = 120]

\* the ports advertised and the hosts that send datagrams
OfferPorts == {1025, 50000}
Senders == {"10.0.0.1", "10.0.0.2"}

\* the server's Offer
Offer(port) == PackOffer(MAGIC_COOKIE, TYPE_OFFER, port, TEAM_NAME_FIELD)

\* the datagrams on the discovery port: Offers of the server, and 39 bytes
\* with another magic constant, type or identity, an Offer cut short (also
\* to nothing) and an Offer with a byte after it
Datagrams ==
    {Offer(port) : port \in OfferPorts}
    \cup {PackOffer(BAD_MAGIC, TYPE_OFFER, 1025, TEAM_NAME_FIELD),
          PackOffer(MAGIC_COOKIE, TYPE_REQUEST, 1025, TEAM_NAME_FIELD),
          PackOffer(MAGIC_COOKIE, TYPE_OFFER, 1025, OTHER_NAME_FIELD),
          PackOffer(MAGIC_COOKIE, TYPE_OFFER, 1025, FF_NAME_FIELD),
          PackOffer(MAGIC_COOKIE, TYPE_OFFER, 1025, TAIL_NAME_FIELD),
          SubSeq(Offer(1025), 1, OFFER_SIZE - 1),
          <<>>,
          Offer(1025) \o <<0>>}

\* start_client has asked for the rounds and bound its socket
ListenerInit ==
    /\ InitServer /\ InitNet /\ InitApart
    /\ cpc = "absent"
    /\ num_rounds \in RoundCounts
    /\ c_r = 0
    /\ cdata = <<>>
    /\ csplits = 0
    /\ player_sum = 0
    /\ cards_received = 0
    /\ stats = [wins |-> 0, losses |-> 0, ties |-> 0]
    /\ cPrompts = 0
    /\ cDecisions = 0

\* data, addr = udp.recvfrom(1024)
ListenerRecv ==
    /\ lpc = "recvfrom"
    /\ \E d \in Datagrams, a \in Senders : dgram' = [addr |-> a, data |-> d]
    /\ opened' = <<>>
    /\ lpc' = "unpack"
    /\ UNCHANGED <<house, rx, single>>

\* if magic == MAGIC_COOKIE and m_type == 0x2
IsOfferHeader(m) == m.magic = MAGIC_COOKIE /\ m.m_type = TYPE_OFFER

\* offered_name = srv_name.split(b'\x00', 1)[0].decode(errors='ignore')
offered_name(m) == DecodeIgnore(UpToNul(m.srv_name))

\* play_game(addr[0], port, num_rounds): tcp.connect((ip, port))
Connect(ip, port) ==
    /\ opened' = Append(opened, <<ip, port>>)
    /\ lpc' = "play_game"

\* The datagram is unpacked (struct.error on fewer than 39 bytes: except
\* Exception: continue), its magic constant and type are tested, its name
\* is compared with TEAM_NAME (continue if it differs), and play_game is
\* called.
ListenerUnpack ==
    /\ lpc = "unpack"
    /\ IF Len(dgram.data) < OFFER_SIZE
       THEN lpc' = "recvfrom" /\ opened' = opened
       ELSE LET m == UnpackOffer(SubSeq(dgram.data, 1, OFFER_SIZE)) IN
            IF IsOfferHeader(m) /\ offered_name(m) = TEAM_NAME
            THEN Connect(dgram.addr, m.port)
            ELSE lpc' = "recvfrom" /\ opened' = opened
    /\ UNCHANGED <<dgram, house, rx, single>>

\* play_game returns (it catches its exceptions); the statistics are
\* printed and the loop goes on
PlayGameReturns ==
    /\ lpc = "play_game"
    /\ lpc' = "recvfrom"
    /\ UNCHANGED <<dgram, opened, house, rx, single>>

ListenerNext == ListenerRecv \/ ListenerUnpack \/ PlayGameReturns

ListenerSpec == ListenerInit /\ [][ListenerNext]_vars

(***************************************************************************)
(* The three receive loops on their own: the request and the Decision in   *)
(* handle_client, the payload in play_game.  Each is                       *)
(*     while len(data) < size: chunk = recv(size - len(data)); data += chunk *)
(* and here recv returns any number of bytes from one to the number asked  *)
(* for, of those in flight.                                                *)
(***************************************************************************)
\* the size each loop reads up to
FrameSize(loop) ==
    IF loop = "request" THEN REQUEST_SIZE
    ELSE IF loop = "decision" THEN DECISION_SIZE
    ELSE PAYLOAD_SIZE

\* a loop that asks for the whole frame size in every call
RecvWantWhole(size, have) == size

\* conn.recv(38 - len(data)), conn.recv(10 - len(decision_data)),
\* tcp.recv(9 - len(data)): the number of bytes asked for
RecvWant(size, have) == size - have

\* what is in flight when a loop begins: the frame and the frame after it
RxStreams(loop) ==
    IF loop = "request"
    THEN {f \o g : f \in RequestFrames,
                   g \in {PackDecision(MAGIC_COOKIE, TYPE_PAYLOAD, HITTT),
                          PackDecision(MAGIC_COOKIE, TYPE_PAYLOAD, STAND)}}
    ELSE IF loop = "decision"
    THEN {f \o g : f \in DecisionFrames, g \in DecisionFrames}
    ELSE {f \o g : f \in {CardFrame(c) : c \in Deck} \cup {ControlFrame},
                   g \in {CardFrame(<<13, 3>>), ControlFrame, ResultFrame(WIN)}}

RxInit ==
    /\ InitServer /\ InitNet /\ InitNoClient /\ InitHouse /\ InitLobby
    /\ rx_loop \in {"request", "decision", "payload"}
    /\ rx_whole \in RxStreams(rx_loop)
    /\ rx_stream = rx_whole
    /\ rx_data = <<>>

\* one turn of the loop: chunk = recv(...); data += chunk
RecvChunk ==
    /\ rx_loop # "none"
    /\ Len(rx_data) < FrameSize(rx_loop)
    /\ rx_stream # <<>>
    /\ \E k \in 1..Min(RecvWant(FrameSize(rx_loop), Len(rx_data)), Len(rx_stream)) :
        /\ rx_data' = rx_data \o SubSeq(rx_stream, 1, k)
        /\ rx_stream' = SubSeq(rx_stream, k + 1, Len(rx_stream))
    /\ UNCHANGED <<rx_loop, rx_whole, house, lobby, single>>

\* the loop is left with a frame, and the next read begins: the Decision
\* that follows the request or a Decision (decision_data = b""), the
\* payload that follows a payload (data = b"")
RecvNextFrame ==
    /\ rx_loop # "none"
    /\ Len(rx_data) >= FrameSize(rx_loop)
    /\ rx_stream # <<>>
    /\ rx_loop' = IF rx_loop = "payload" THEN "payload" ELSE "decision"
    /\ rx_whole' = rx_stream
    /\ rx_data' = <<>>
    /\ UNCHANGED <<rx_stream, house, lobby, single>>

RxNext == RecvChunk \/ RecvNextFrame

RxSpec == RxInit /\ [][RxNext]_vars

(***************************************************************************)
(* What the properties below read off the state.  sent and recvd are the   *)
(* logs of the current round and only grow within it, so a property of     *)
(* "the frame just sent" is checked for every frame of every round.        *)
(***************************************************************************)
\* the 38 bytes are a SessionRequest: the magic constant, type 3, and an
\* identity of ASCII bytes
IsSessionRequest(f) ==
    /\ Len(f) = REQUEST_SIZE
    /\ SubSeq(f, 1, 4) = MAGIC_COOKIE
    /\ f[5] = TYPE_REQUEST
    /\ \A i \in 7..REQUEST_SIZE : f[i] < 128

\* the round's frames so far end with its result frame
ResultSent == sent # <<>> /\ IsResult(Last(sent))

\* the dealer is inside a round, or between two rounds with the last
\* round's hands still in its locals
InRound == pc \notin {"recv_req", "unpack_req", "done"} /\ player_cards # <<>>

\* the round's result frame is out; the hands are still the round's
RoundOver == pc = "for_loop" /\ ResultSent

\* the dealer's statements of the first deal, and those after the decisions
Dealing == {"send_p1", "send_p2", "send_d"}
AfterDecisions == {"dealer_loop", "send_res", "for_loop"}

IsValidKind(k) == k # "bad"
IsStandKind(k) == k \in {"stand", "other"}

\* the Hit commands read in this round that the dealer has acted on
HitsActed ==
    Count(recvd, IsHitKind)
        - (IF pc = "unpack_dec" /\ Last(recvd) = "hit" THEN 1 ELSE 0)

CardFramesSent == SelectSeq(sent, IsCard)

\* the card that the k-th card frame of a round is due to carry
DueCard(k) ==
    IF k <= 2 THEN player_cards[k]
    ELSE IF k = 3 THEN dealer_cards[1]
    ELSE player_cards[k - 1]

\* the cards on the wire: (rank, suit) of each card frame sent
CardsOnWire == {CardOf(sent[i]) : i \in {j \in 1..Len(sent) : IsCard(sent[j])}}

\* the player's total as the wire shows it: the values of the card frames
\* among the first n frames of the round, the third (the dealer's) left out
RECURSIVE WireTotal(_)
WireTotal(n) ==
    IF n = 0 THEN 0
    ELSE WireTotal(n - 1)
         + (IF IsCard(sent[n]) /\ n # 3
            THEN card_value(PayloadRank(sent[n])) ELSE 0)

(***************************************************************************)
(* C1.  A session with a valid request for N rounds, with no I/O failure   *)
(* and no peer close, runs exactly N rounds one after another: one result  *)
(* frame (result 1, 2 or 3, rank 0, suit 0) ends each round, N are sent in *)
(* all, and then the connection is closed.  No round has two result        *)
(* frames and there is no result frame for a round N + 1.                  *)
(***************************************************************************)
C1_ExactlyNRounds ==
    \* one result frame per completed round, and never more than N
    /\ nResults = r
    /\ pc \notin {"recv_req", "unpack_req"} => nResults <= rounds
    \* a round has one result frame, its last frame
    /\ Count(sent, IsResult) <= 1
    /\ Count(sent, IsResult) = 1 => ResultSent
    /\ ResultSent =>
        /\ pc \in {"for_loop", "done"}
        /\ nResults >= 1
        /\ HasPayloadHeader(Last(sent))
        /\ PayloadRes(Last(sent)) \in {TIE, LOSS, WIN}
        /\ PayloadRank(Last(sent)) = 0
        /\ PayloadSuit(Last(sent)) = 0
    \* a round in progress is the next one, and it has no result yet
    /\ pc \notin {"recv_req", "unpack_req", "for_loop", "done"} =>
        /\ r < rounds
        /\ ~ResultSent
    \* the session is closed exactly when handle_client is over
    /\ closed <=> pc = "done"
    \* the loop ran to its end: N rounds, N results
    /\ exit = "finished" =>
        /\ pc = "done"
        /\ nResults = rounds
        /\ rounds = UnpackRequest(data).rounds
        /\ rounds > 0 => ResultSent
    \* with a valid request, no failed socket call and no peer close,
    \* handle_client ends in no other way
    /\ (pc = "done" /\ IsSessionRequest(data) /\ io = "ok" /\ ~peer_closed)
        => exit = "finished"

\* a session of two rounds or more has run to its end
C1_Witness ==
    /\ pc = "done" /\ exit = "finished"
    /\ IsSessionRequest(data) /\ io = "ok" /\ ~peer_closed
    /\ rounds >= 2 /\ nResults = rounds

(***************************************************************************)
(* C2.  The result code of a round's result frame is the reference         *)
(* function of the two final totals (p, d): LOSS if p > 21; otherwise WIN  *)
(* if d > 21 or p > d; otherwise LOSS if d > p; otherwise TIE.             *)
(***************************************************************************)
Reference(p, d) ==
    CASE p > 21 -> 2
      [] p <= 21 /\ (d > 21 \/ p > d) -> 3
      [] p <= 21 /\ d <= 21 /\ d > p -> 2
      [] OTHER -> 1

C2_ResultIsReference ==
    /\ RoundOver =>
        /\ p_sum = HandTotal(player_cards)
        /\ d_sum = HandTotal(dealer_cards)
        /\ PayloadRes(Last(sent)) =
                Reference(HandTotal(player_cards), HandTotal(dealer_cards))
    /\ pc = "send_res" => res = Reference(p_sum, d_sum)
    /\ ResultOf(22, 18) = LOSS
    /\ ResultOf(20, 22) = WIN
    /\ ResultOf(19, 19) = TIE
    /\ ResultOf(21, 21) = TIE
    /\ ResultOf(18, 26) = WIN

\* both hands are bust and the frame says LOSS
C2_Witness ==
    /\ RoundOver
    /\ HandTotal(player_cards) > 21
    /\ HandTotal(dealer_cards) > 21
    /\ PayloadRes(Last(sent)) = LOSS

(***************************************************************************)
(* C3.  A Decision frame with a wrong magic or type byte is discarded and  *)
(* neither advances nor restarts the decision loop: no card is dealt, the  *)
(* round does not end, and the dealer goes on waiting for a valid Decision *)
(* in answer to the prompt it has already sent, so that every control      *)
(* frame but the first of a round follows a valid Decision.                *)
(***************************************************************************)
C3_MalformedKeepsWaiting ==
    \* no card is dealt for a malformed frame
    /\ InRound => Len(player_cards) = 2 + HitsActed
    \* the round does not end on a malformed frame
    /\ (recvd # <<>> /\ Last(recvd) = "bad") => ~ResultSent
    \* no prompt is sent in answer to a malformed frame
    /\ Count(sent, IsControl) <= Count(recvd, IsValidKind) + 1

(***************************************************************************)
(* C4.  As the specification states it: any I/O failure on the connection, *)
(* a receive timeout included, in any state of the session, aborts the     *)
(* session at once and the connection is closed.                           *)
(***************************************************************************)
C4_AnyFailureAborts ==
    io \in {"timeout", "error", "eof"} => pc = "done" /\ closed

(***************************************************************************)
(* C4, as the code has it.  A failed socket call (an error of recv or      *)
(* sendall, the peer's close, a receive timeout while the request is read) *)
(* ends the session at once: handle_client is over, the connection is      *)
(* closed and nothing more is sent.  A receive timeout while a Decision is *)
(* awaited does not: the dealer stays in the read, with the session open.  *)
(***************************************************************************)
C4_FailureAborts ==
    /\ io = "error" => pc = "done" /\ closed /\ exit = "exception"
    /\ io = "eof" => pc = "done" /\ closed /\ exit = "return"
    /\ io = "timeout" =>
        \/ /\ pc = "done" /\ closed /\ exit = "exception"
           /\ Len(data) < REQUEST_SIZE /\ sent = <<>>
        \/ /\ pc = "recv_dec" /\ ~closed /\ exit = "running"
           /\ IsControl(Last(sent))
    \* once over, handle_client takes no further step: it sends nothing
    /\ pc = "done" => closed /\ ~ENABLED (Dealer \/ Faults)

\* a socket call fails in the middle of a round, after a prompt
C4_Witness ==
    /\ io = "error" /\ pc = "done" /\ closed
    /\ Count(sent, IsControl) >= 1
    /\ ~ResultSent

(***************************************************************************)
(* C5.  Within one connection the dealer and play_game alternate, with no  *)
(* pipelining: the control frames the dealer has sent exceed the complete  *)
(* Decision frames it has read by at most one, no result frame is sent     *)
(* while a prompt is unanswered, and play_game sends exactly one Decision  *)
(* for each control frame it receives and none otherwise.                  *)
(***************************************************************************)
C5_StrictAlternation ==
    LET controls == Count(sent, IsControl) IN
    \* the dealer: at most one prompt is unanswered
    /\ controls - Len(recvd) \in {0, 1}
    /\ controls = Len(recvd) + 1 <=> (pc = "recv_dec" /\ ~ResultSent)
    \* the dealer: every prompt is answered before the result goes out
    /\ ResultSent => controls = Len(recvd)
    \* play_game: one Decision for each control frame, after the frame
    /\ cDecisions <= cPrompts
    /\ cPrompts <= cDecisions + 1
    /\ cPrompts = cDecisions + 1 <=> cpc = "input"
    \* play_game picks its answer while the dealer waits for it, with
    \* nothing in flight either way and the two counts of the round agreeing
    /\ cpc = "input" =>
        /\ pc = "recv_dec" /\ decision_data = <<>>
        /\ c2s = <<>> /\ s2c = <<>>
        /\ cPrompts = controls
        /\ cDecisions = Len(recvd)
    \* a Decision is in flight only while the dealer waits for it, and
    \* it is the only one
    /\ (pc \notin {"recv_req", "unpack_req"} /\ c2s # <<>>) =>
        /\ pc = "recv_dec"
        /\ Len(decision_data) + Len(c2s) = DECISION_SIZE
        /\ s2c = <<>> /\ cpc = "recv"
        /\ cDecisions = Len(recvd) + 1

\* in its second round, play_game is asked again after a Hit
C5_Witness ==
    /\ cpc = "input" /\ pc = "recv_dec"
    /\ c_r >= 1 /\ r >= 1
    /\ cDecisions >= 1 /\ Len(recvd) >= 1

(***************************************************************************)
(* C6.  The first three frames of a round are the player's first card, the *)
(* player's second card and the dealer's first card, in this order, each   *)
(* with result 0 and rank > 0.  The dealer's second card and the cards the *)
(* dealer draws are never sent: every card frame after the third carries   *)
(* a card that a Hit appended to the player's hand.                        *)
(***************************************************************************)
C6_OnlyUpCardShown ==
    LET cards == CardFramesSent IN
    \* the first three frames are card frames
    /\ \A i \in 1..Min(3, Len(sent)) :
        /\ IsCard(sent[i])
        /\ PayloadRes(sent[i]) = 0
        /\ HasPayloadHeader(sent[i])
    /\ pc \in Dealing <=> (pc # "done" /\ player_cards # <<>> /\ Len(sent) < 3)
    \* the card frames are the player's two cards, the dealer's first
    \* card and the player's later cards, in this order, and no others
    /\ InRound =>
        /\ Len(cards) <= Len(player_cards) + 1
        /\ \A k \in 1..Len(cards) : CardOf(cards[k]) = DueCard(k)
        /\ pc \notin Dealing \cup {"send_hit"}
                => Len(cards) = Len(player_cards) + 1
    \* a round sends as many card frames as Hits were read, and three
    /\ Len(cards) <= 3 + Count(recvd, IsHitKind)

\* a round is over in which the player took a card and the dealer drew,
\* and neither the dealer's second card nor the one it drew was on the wire
C6_Witness ==
    /\ RoundOver
    /\ Len(player_cards) >= 3
    /\ Len(dealer_cards) >= 3
    /\ dealer_cards[2] \notin CardsOnWire
    /\ dealer_cards[3] \notin CardsOnWire
    /\ dealer_cards[2] # dealer_cards[3]

(***************************************************************************)
(* C7.  A control frame is sent only when the player's total is at most    *)
(* 21.  Once the total exceeds 21, also when the first two cards already   *)
(* total 22, the decision loop is over: no further prompt is sent and no   *)
(* Decision frame is read in the round.                                    *)
(***************************************************************************)
C7_PromptOnlyUpTo21 ==
    LET total == WireTotal(Len(sent)) IN
    \* the control frame just sent follows a total of at most 21
    /\ (sent # <<>> /\ IsControl(Last(sent))) =>
        /\ Len(sent) > 3
        /\ total <= 21
        /\ PayloadSuit(Last(sent)) = 0
    \* with a total above 21 the dealer neither prompts nor reads
    /\ (InRound /\ HandTotal(player_cards) > 21) =>
        pc \notin {"send_ctrl", "recv_dec", "unpack_dec"}
    \* nor has it done so since the card that took the total there: every
    \* prompt was answered before, and every frame read was a Hit or malformed
    /\ (Len(sent) >= 3 /\ total > 21) =>
        /\ Count(sent, IsControl) = Len(recvd)
        /\ Count(recvd, IsHitKind) = Len(CardFramesSent) - 3
        /\ \A i \in 1..Len(recvd) : recvd[i] \in {"hit", "bad"}
    \* two first cards of 22: no prompt at all, nothing read
    /\ (Len(sent) >= 3 /\ WireTotal(3) > 21) =>
        /\ Count(sent, IsControl) = 0
        /\ recvd = <<>>
        /\ Len(sent) <= 4

\* a round dealt 22 is over after four frames: three cards and the result
C7_Witness ==
    /\ RoundOver
    /\ Len(player_cards) = 2
    /\ HandTotal(player_cards) = 22
    /\ Len(sent) = 4
    /\ recvd = <<>>

(***************************************************************************)
(* C8.  For a valid Decision frame: the command "Hittt" appends exactly    *)
(* one card to the player's hand, that card is sent as one frame with      *)
(* rank > 0 and result 0, and the decision loop repeats; any other 5-byte  *)
(* command deals no card, sends no card frame and ends the decision loop   *)
(* as a Stand, not as an error or an abort.                                *)
(***************************************************************************)
C8_HitOrStand ==
    LET cards == CardFramesSent
        n == Len(sent)
    IN
    \* one card in the hand for each Hit acted on, and no other
    /\ InRound => Len(player_cards) = 2 + HitsActed
    \* that card is sent, as one card frame, before anything else
    /\ (InRound /\ pc \notin Dealing) =>
        /\ Len(cards) = 3 + HitsActed - (IF pc = "send_hit" THEN 1 ELSE 0)
        /\ Len(cards) > 3 =>
            /\ Last(cards) = CardFrame(player_cards[Len(cards) - 1])
            /\ PayloadRank(Last(cards)) > 0
            /\ PayloadRes(Last(cards)) = 0
    /\ pc = "send_hit" => Last(recvd) = "hit" /\ IsControl(Last(sent))
    \* after the card of a Hit the loop repeats: the frame just sent after
    \* it is a prompt or (the hand being bust) the result
    /\ (n >= 5 /\ IsCard(sent[n - 1])) =>
            IF WireTotal(n - 1) <= 21 THEN IsControl(sent[n])
                                      ELSE IsResult(sent[n])
    \* a command that is not "Hittt" is the last frame read in the round:
    \* the loop is over, with no card and no prompt after it
    /\ \A i \in 1..Len(recvd) : IsStandKind(recvd[i]) => i = Len(recvd)
    /\ (recvd # <<>> /\ IsStandKind(Last(recvd))) =>
        /\ pc \in AfterDecisions \cup {"unpack_dec", "done"}
        /\ Count(sent, IsControl) = Len(recvd)
        /\ ~IsCard(Last(sent))
        /\ Len(cards) = 3 + Count(recvd, IsHitKind)
        \* it is no error: the session goes on, unless a later send fails
        /\ pc = "done" => exit = "finished" \/ io = "error"
        /\ exit \in {"running", "finished"} \/ io = "error"

\* a Hit, and then the command "hittt": the round is over with three cards
C8_Witness ==
    /\ RoundOver
    /\ Len(recvd) = 2
    /\ recvd[1] = "hit" /\ recvd[2] = "other"
    /\ Len(player_cards) = 3

(***************************************************************************)
(* C9.  The dealer plays its hand only when the player's final total is    *)
(* at most 21, and draws while and only while its total is below 17: when  *)
(* a result frame is sent, either the player is bust and the dealer holds  *)
(* its two first cards, or the dealer's total is at least 17 and was below *)
(* 17 before the last card it drew, if it drew any.                        *)
(***************************************************************************)
C9_DealerPlay ==
    LET p == HandTotal(player_cards)
        d == HandTotal(dealer_cards)
        n == Len(dealer_cards)
    IN
    \* when the result is computed and when it has been sent
    /\ (pc = "send_res" \/ RoundOver) =>
        \/ p > 21 /\ n = 2
        \/ /\ p <= 21
           /\ d >= 17
           /\ \A k \in 2..(n - 1) : HandTotal(SubSeq(dealer_cards, 1, k)) < 17
    \* the dealer's hand grows in DealerPlay alone
    /\ (InRound /\ pc \notin AfterDecisions) => n = 2
    /\ (InRound /\ n > 2) =>
        /\ p <= 21
        /\ HandTotal(SubSeq(dealer_cards, 1, n - 1)) < 17

\* the dealer drew to 17 exactly and stopped there
C9_Witness ==
    /\ RoundOver
    /\ HandTotal(player_cards) <= 21
    /\ Len(dealer_cards) >= 3
    /\ HandTotal(dealer_cards) = 17

(***************************************************************************)
(* C10.  If the first 38 bytes of a connection are not a SessionRequest    *)
(* with the magic constant 0xabcddcba and type 3, the session ends without *)
(* an answer: no frame is sent on the connection, no card is dealt, and    *)
(* the connection is closed.                                               *)
(***************************************************************************)
\* the 38 bytes carry the magic constant and the type of a request
HasRequestHeader(f) == SubSeq(f, 1, 4) = MAGIC_COOKIE /\ f[5] = TYPE_REQUEST

C10_BadRequestNoAnswer ==
    (Len(data) = REQUEST_SIZE /\ ~HasRequestHeader(data) /\ pc # "unpack_req") =>
        /\ pc = "done" /\ closed /\ exit = "return"
        /\ sent = <<>> /\ nResults = 0 /\ r = 0
        /\ player_cards = <<>> /\ dealer_cards = <<>>
        /\ ~ENABLED Dealer

\* 38 bytes with the magic constant and an Offer's type: closed, no answer
C10_Witness ==
    /\ Len(data) = REQUEST_SIZE
    /\ SubSeq(data, 1, 4) = MAGIC_COOKIE
    /\ data[5] = TYPE_OFFER
    /\ data[6] >= 1
    /\ pc = "done" /\ closed /\ sent = <<>>

(***************************************************************************)
(* C11.  While the dealer awaits a Decision frame, a receive timeout does  *)
(* not abort the session and drops none of the bytes of the frame read so  *)
(* far: the dealer stays in the read of the same frame.  A peer close (an  *)
(* empty read) before the ten bytes are complete ends the session in that  *)
(* step: the connection is closed, and no result frame is sent for the     *)
(* round in progress.                                                      *)
(***************************************************************************)
IsPrefix(s, t) == Len(s) <= Len(t) /\ s = SubSeq(t, 1, Len(s))

C11_TimeoutKeepsCloseEnds ==
    \* the step of a timeout: the read goes on, with the bytes it had and
    \* with those in flight still to come
    /\ [][(pc = "recv_dec" /\ io' = "timeout") =>
            /\ pc' = "recv_dec"
            /\ decision_data' = decision_data
            /\ IsPrefix(decision_data \o c2s, decision_data' \o c2s')
            /\ ~closed' /\ exit' = "running"
            /\ sent' = sent /\ nResults' = nResults]_vars
    \* the step of an empty read: the session is over, with nothing sent
    /\ [][(pc = "recv_dec" /\ io' = "eof") =>
            /\ Len(decision_data) < DECISION_SIZE
            /\ pc' = "done" /\ closed' /\ exit' = "return"
            /\ sent' = sent /\ nResults' = nResults]_vars
    \* what is read and what is in flight make up the frame the peer wrote
    /\ [](pc = "recv_dec" /\ decision_data # <<>> =>
            \E f \in DecisionFrames : IsPrefix(decision_data \o c2s, f))
    \* after the timeout the session is open, after the close it is over
    \* and the round has no result frame
    /\ [](pc = "recv_dec" /\ io = "timeout" => ~closed /\ exit = "running")
    /\ [](io = "eof" /\ sent # <<>> =>
            /\ pc = "done" /\ closed
            /\ IsControl(Last(sent))
            /\ nResults = r
            /\ ~ENABLED Dealer)

\* a timeout in the middle of a frame: the bytes read before it are there
C11_Witness ==
    /\ pc = "recv_dec" /\ io = "timeout"
    /\ decision_data # <<>> /\ Len(decision_data) < DECISION_SIZE
    /\ c2s # <<>>
    /\ ~closed

(***************************************************************************)
(* C12.  With several sessions running at one time, a step of one session  *)
(* leaves the hands, the round counter and the connection of every other   *)
(* session as they were.  The end of a session, whether by an I/O error, a *)
(* peer close or an invalid request, ends that session alone: every other  *)
(* session can go on, the accept loop can accept the next connection and   *)
(* the broadcaster goes on sending Offers.                                 *)
(***************************************************************************)
C12_SessionsIsolated ==
    \* a step changes one thread's record at most
    /\ [][\A i \in SessionIds : sessions'[i] # sessions[i] =>
            \A j \in SessionIds \ {i} : sessions'[j] = sessions[j]]_vars
    \* the step that ends a thread leaves the broadcaster where it was
    /\ [][\A i \in SessionIds :
            (Running(sessions[i]) /\ ~Running(sessions'[i])) =>
                /\ sessions'[i].closed
                /\ bpc' = bpc]_vars
    \* whatever the other threads have come to, a running thread has a next
    \* step, a connection can be accepted while a thread is free for it,
    \* and the broadcaster is in its loop
    /\ [](\A i \in SessionIds : Running(sessions[i]) => ENABLED Serve(i))
    /\ []((\E i \in SessionIds : ~Running(sessions[i])) => ENABLED AcceptLoop)
    /\ [](ENABLED Broadcaster)
    \* a connection is closed exactly when its thread is over
    /\ [](\A i \in SessionIds : sessions[i].closed <=> sessions[i].pc = "done")

\* one session has ended by an exception while another, after a Hit, is
\* in its round with its hands, waiting for a Decision
C12_Witness ==
    \E i \in SessionIds, j \in SessionIds :
        /\ sessions[i].pc = "done" /\ sessions[i].exit = "exception"
        /\ sessions[j].pc = "recv_dec" /\ sessions[j].rounds = 1
        /\ Len(sessions[j].player_cards) = 3
        /\ Len(sessions[j].dealer_cards) = 2
        /\ ~sessions[j].closed

(***************************************************************************)
(* C13.  The discovery listener opens a stream connection only for a       *)
(* datagram that decodes as an Offer (the magic constant, type 2) whose    *)
(* identity is exactly the configured identity string, and then it opens   *)
(* one connection, to the sender's address and the advertised port.  For a *)
(* datagram with another magic constant, another type, too few bytes or    *)
(* another identity it opens none, keeps its state, and goes on receiving. *)
(***************************************************************************)
\* the identity a datagram carries: its name field up to the zero padding
IdentityOf(d) == UpToNul(SubSeq(d, 8, OFFER_SIZE))

\* the datagram decodes as an Offer with the configured identity
IsMatchingOffer(d) ==
    /\ Len(d) >= OFFER_SIZE
    /\ SubSeq(d, 1, 4) = MAGIC_COOKIE
    /\ d[5] = TYPE_OFFER
    /\ IdentityOf(d) = TEAM_NAME

C13_ConnectsOnlyToMatchingOffer ==
    \* a connection is opened for a matching Offer alone
    /\ opened # <<>> => IsMatchingOffer(dgram.data)
    \* and then it is one, to the sender and the advertised port
    /\ Len(opened) <= 1
    /\ opened # <<>> =>
        opened[1] = <<dgram.addr, dgram.data[6] * 256 + dgram.data[7]>>
    /\ (lpc # "unpack" /\ IsMatchingOffer(dgram.data)) => Len(opened) = 1
    \* any other datagram: no connection, and the loop is receiving again
    /\ (lpc # "unpack" /\ dgram # NoDatagram /\ ~IsMatchingOffer(dgram.data)) =>
        /\ opened = <<>>
        /\ lpc = "recvfrom"
    /\ lpc = "play_game" => opened # <<>>
    \* the listener's state is what it was, and it goes on
    /\ num_rounds \in RoundCounts /\ stats = [wins |-> 0, losses |-> 0, ties |-> 0]
    /\ ENABLED ListenerNext

(***************************************************************************)
(* C14.  In a completed round in which the dealer read h valid Hit         *)
(* decisions and no malformed Decision frame, it sent 3 + h card frames,   *)
(* one result frame, and h + 1 control frames if the round ended by a      *)
(* Stand, h if it ended by a bust.  A round with an immediate Stand is     *)
(* five frames: two player cards, the dealer's up card, one control frame  *)
(* and the result.                                                         *)
(***************************************************************************)
C14_FrameCounts ==
    LET h == Count(recvd, IsHitKind)
        controls == Count(sent, IsControl)
        cards == Len(CardFramesSent)
        byStand == recvd # <<>> /\ IsStandKind(Last(recvd))
    IN
    /\ (RoundOver /\ Count(recvd, IsBadKind) = 0) =>
        /\ cards = 3 + h
        /\ Count(sent, IsResult) = 1
        /\ controls = (IF byStand THEN h + 1 ELSE h)
        /\ Len(sent) = cards + controls + 1
        \* the round ended by a Stand or by a bust, and not by both
        /\ byStand <=> HandTotal(player_cards) <= BUST
        /\ Len(recvd) = (IF byStand THEN h + 1 ELSE h)
    \* an immediate Stand
    /\ (RoundOver /\ Len(recvd) = 1 /\ IsStandKind(recvd[1])) =>
        /\ Len(sent) = 5
        /\ IsCard(sent[1]) /\ IsCard(sent[2]) /\ IsCard(sent[3])
        /\ IsControl(sent[4])
        /\ IsResult(sent[5])

\* a round of two Hits and a Stand is over: five cards, three prompts
C14_Witness ==
    /\ RoundOver
    /\ recvd = <<"hit", "hit", "stand">>
    /\ Len(CardFramesSent) = 5
    /\ Count(sent, IsControl) = 3
    /\ Len(sent) = 9

(***************************************************************************)
(* C15.  A frame that arrives in any number of chunks of any sizes is      *)
(* decoded as the same frame arriving whole: for the 38-byte request and   *)
(* the 10-byte Decision in the dealer and the 9-byte payload in play_game, *)
(* the receive loop accumulates the frame's size exactly, takes no byte of *)
(* the frame that follows, and the fields unpacked are those of the frame  *)
(* whatever the split.                                                     *)
(***************************************************************************)
\* the fields a loop's frame unpacks to
Decode(loop, frame) ==
    IF loop = "request" THEN UnpackRequest(frame)
    ELSE IF loop = "decision" THEN UnpackDecision(frame)
    ELSE UnpackPayload(frame)

C15_ChunkingIsInvisible ==
    LET size == FrameSize(rx_loop) IN
    rx_loop # "none" =>
        \* never more than the frame, and no byte lost or out of order
        /\ Len(rx_data) <= size
        /\ rx_data \o rx_stream = rx_whole
        \* a complete frame is the frame that was sent, and what follows
        \* it is still in flight
        /\ Len(rx_data) = size =>
            /\ rx_data = SubSeq(rx_whole, 1, size)
            /\ rx_stream = SubSeq(rx_whole, size + 1, Len(rx_whole))
            /\ Decode(rx_loop, rx_data) = Decode(rx_loop, SubSeq(rx_whole, 1, size))
            \* the fields are those the frame was packed from
            /\ rx_loop = "request" =>
                LET m == UnpackRequest(rx_data) IN
                    rx_data = PackRequest(m.magic, m.m_type, m.rounds, m.name)
            /\ rx_loop = "decision" =>
                LET m == UnpackDecision(rx_data) IN
                    rx_data = PackDecision(m.magic, m.m_type, m.decision)
            /\ rx_loop = "payload" =>
                LET m == UnpackPayload(rx_data) IN
                    rx_data = PackPayload(m.magic, m.m_type, m.res, m.rank, m.suit)

\* a request is complete, however it was split, and the Decision behind
\* it is in flight, whole
C15_Witness ==
    /\ rx_loop = "request"
    /\ Len(rx_data) = REQUEST_SIZE
    /\ UnpackRequest(rx_data).rounds = 1
    /\ UnpackRequest(rx_data).name = TEAM_NAME_FIELD
    /\ rx_stream = PackDecision(MAGIC_COOKIE, TYPE_PAYLOAD, STAND)

(***************************************************************************)
(* C16.  In every state of a round the total of each hand is the sum over  *)
(* its cards of value(rank), where value(1) = 11, value(r) = 10 for        *)
(* r >= 10 and value(r) = r otherwise.  Within the round a hand changes    *)
(* only by one card being appended to it: it never shrinks, and its total  *)
(* never decreases from one state to the next.                             *)
(***************************************************************************)
\* the value of a rank, as the claim states it
Value(rank) ==
    CASE rank = 1 -> 11
      [] rank >= 10 -> 10
      [] OTHER -> rank

RECURSIVE SumOfValues(_)
SumOfValues(cards) ==
    IF cards = <<>> THEN 0
    ELSE SumOfValues(SubSeq(cards, 1, Len(cards) - 1)) + Value(Last(cards)[1])

\* hand h is hand g, or g with one card appended
SameOrOneMore(g, h) ==
    \/ h = g
    \/ Len(h) = Len(g) + 1 /\ SubSeq(h, 1, Len(g)) = g

C16_HandTotals ==
    \* the valuation, for every rank
    /\ [](\A rank \in 1..13 : card_value(rank) = Value(rank))
    \* the totals of the hands, and the totals the dealer computed from
    \* them, wherever it has computed them since the hand changed
    /\ [](InRound =>
            /\ HandTotal(player_cards) = SumOfValues(player_cards)
            /\ HandTotal(dealer_cards) = SumOfValues(dealer_cards)
            /\ pc \in {"send_ctrl", "recv_dec", "unpack_dec"} \cup AfterDecisions
                => p_sum = SumOfValues(player_cards)
            /\ pc \in AfterDecisions => d_sum = SumOfValues(dealer_cards))
    \* from one state of the round to the next
    /\ [][(player_cards # <<>> /\ player_cards' # <<>>) =>
            /\ SameOrOneMore(player_cards, player_cards')
            /\ SameOrOneMore(dealer_cards, dealer_cards')
            /\ player_cards' = player_cards \/ dealer_cards' = dealer_cards
            /\ HandTotal(player_cards') >= HandTotal(player_cards)
            /\ HandTotal(dealer_cards') >= HandTotal(dealer_cards)
            /\ p_sum' >= p_sum
            /\ d_sum' >= d_sum]_vars

\* a round in which each hand has grown, with an ace in the player's
C16_Witness ==
    /\ RoundOver
    /\ Len(player_cards) >= 3 /\ Len(dealer_cards) >= 3
    /\ \E i \in 1..Len(player_cards) : player_cards[i][1] = 1
    /\ p_sum = HandTotal(player_cards) /\ p_sum <= BUST
    /\ d_sum = HandTotal(dealer_cards)

(***************************************************************************)
(* C17.  Whenever a result frame with the result TIE (1) is sent, the      *)
(* player's final total and the dealer's final total are equal, and both   *)
(* are at most 21.                                                         *)
(***************************************************************************)
\* the totals a hand of the game can have
Totals == 4..41

C17_TieMeansEqualUnbust ==
    \* the frame about to be sent, and the frame sent
    /\ (pc = "send_res" /\ res = TIE) =>
        /\ p_sum = d_sum /\ p_sum <= 21
        /\ p_sum = HandTotal(player_cards)
        /\ d_sum = HandTotal(dealer_cards)
    /\ (RoundOver /\ PayloadRes(Last(sent)) = TIE) =>
        /\ HandTotal(player_cards) = HandTotal(dealer_cards)
        /\ HandTotal(player_cards) <= 21
        /\ HandTotal(dealer_cards) <= 21
    \* the comparison itself, for all totals (it reads no variable: one
    \* state is enough to evaluate it in)
    /\ pc = "recv_req" /\ data = <<>> =>
        \A p \in Totals, d \in Totals :
            ResultOf(p, d) = TIE <=> (p = d /\ p <= 21)

\* a round ends in a tie at 20
C17_Witness ==
    /\ RoundOver
    /\ PayloadRes(Last(sent)) = TIE
    /\ HandTotal(player_cards) = 20
    /\ HandTotal(dealer_cards) = 20

(***************************************************************************)
(* C18.  Every round terminates, whatever the cards and whatever the       *)
(* player decides.  Every card is worth at least 2, so a player who always *)
(* hits is bust after a bounded number of cards and the dealer's draw loop *)
(* stops after a bounded number of draws.  Hence, if the peer answers      *)
(* every prompt with a complete valid Decision frame and no I/O fails, a   *)
(* session of N rounds eventually is finished, with N results sent and the *)
(* connection closed.                                                      *)
(***************************************************************************)
\* the hand but for its last card
Front(cards) == SubSeq(cards, 1, Len(cards) - 1)

C18_SessionTerminates ==
    \* every card counts for 2 at least
    /\ [](\A rank \in 1..13 : card_value(rank) >= 2)
    \* a card is added only to a hand that is not yet bust (the player's)
    \* or below 17 (the dealer's), which bounds the hands
    /\ [](InRound =>
            /\ HandTotal(player_cards) >= 2 * Len(player_cards)
            /\ HandTotal(dealer_cards) >= 2 * Len(dealer_cards)
            /\ Len(player_cards) > 2 => HandTotal(Front(player_cards)) <= BUST
            /\ Len(dealer_cards) > 2 => HandTotal(Front(dealer_cards)) < DEALER_STAND
            /\ Len(player_cards) <= 11
            /\ Len(dealer_cards) <= 9)
    \* the session comes to its end
    /\ <>(/\ pc = "done" /\ exit = "finished" /\ closed
          /\ nResults = rounds
          /\ IsSessionRequest(data))

\* the session is finished after a round in which the player kept hitting
\* until bust
C18_Witness ==
    /\ pc = "done" /\ exit = "finished" /\ closed
    /\ rounds >= 1 /\ nResults = rounds
    /\ Len(recvd) >= 2
    /\ \A i \in 1..Len(recvd) : recvd[i] = "hit"

(***************************************************************************)
(* C19.  Over a connection that delivers the dealer's frames in order,     *)
(* whenever play_game has received a control frame its player_sum (the     *)
(* values of the round's card frames 1, 2 and 4 onward; the third is the   *)
(* dealer's up card) equals the total of the player's hand that the dealer *)
(* computed before it sent that prompt.  The card counter of play_game     *)
(* starts again at 0 with each round of the dealer: while the two are in   *)
(* the same round it counts that round's card frames and no others.        *)
(***************************************************************************)
\* the frames of the dealer's round that play_game has processed
Processed == Len(sent) - (Len(s2c) + Len(cdata)) \div PAYLOAD_SIZE

\* play_game is inside a round, and it is the round the dealer is in
SameRound ==
    /\ cpc \in {"recv", "process", "input"}
    /\ c_r = r
    /\ pc \notin {"for_loop", "done"}

C19_ClientSumIsDealerSum ==
    \* at the prompt
    /\ [](cpc = "input" =>
            /\ pc = "recv_dec"
            /\ player_sum = p_sum
            /\ player_sum = HandTotal(player_cards)
            /\ cards_received = Len(player_cards) + 1)
    \* all through the round
    /\ [](SameRound =>
            /\ Processed >= 0
            /\ cards_received = Count(SubSeq(sent, 1, Processed), IsCard)
            /\ player_sum = WireTotal(Processed))
    \* the counter goes up by one, with a card frame, or back to 0, between
    \* two rounds: after the result of the last round and before the first
    \* card of the next
    /\ [][cards_received' # cards_received =>
            \/ /\ cards_received' = cards_received + 1
               /\ cpc = "process" /\ IsCard(cdata)
               /\ c_r' = c_r
            \/ /\ cards_received' = 0
               /\ cpc = "for_loop" /\ cpc' = "recv"
               /\ nResults >= c_r /\ c_r >= 1]_vars

\* in its second round, after a Hit, play_game is asked again
C19_Witness ==
    /\ cpc = "input"
    /\ c_r = 1 /\ r = 1
    /\ cards_received = 4
    /\ player_sum = HandTotal(player_cards)
    /\ player_sum > 14

(***************************************************************************)
(* C20.  play_game, asking for N rounds, against one handle_client over a  *)
(* connection that delivers every byte in order.  The two never wait for   *)
(* each other: they are never both in recv with nothing in flight, and     *)
(* until both have finished one of them can take a step.  play_game leaves *)
(* its r-th round on the r-th result frame the dealer sent, and on nothing *)
(* else.  Each result frame adds one to the counter of its result code and *)
(* leaves the other two alone, so that when play_game has finished         *)
(* wins + losses + ties is what it was before, plus N.                     *)
(***************************************************************************)
Total(s) == s.wins + s.losses + s.ties

\* the result frames among the whole frames at the head of a byte sequence
RECURSIVE ResultsIn(_)
ResultsIn(bytes) ==
    IF Len(bytes) < PAYLOAD_SIZE THEN 0
    ELSE (IF IsResult(SubSeq(bytes, 1, PAYLOAD_SIZE)) THEN 1 ELSE 0)
         + ResultsIn(SubSeq(bytes, PAYLOAD_SIZE + 1, Len(bytes)))

\* the counters after a result frame with this code
Tally(s, code) ==
    IF code = TIE THEN [s EXCEPT !.ties = @ + 1]
    ELSE IF code = LOSS THEN [s EXCEPT !.losses = @ + 1]
    ELSE IF code = WIN THEN [s EXCEPT !.wins = @ + 1]
    ELSE s

C20_NoDeadlockAndStats ==
    \* no deadlock
    /\ [](~(/\ pc \in RecvPcs /\ ~closed
            /\ cpc = "recv" /\ ~peer_closed
            /\ c2s = <<>> /\ s2c = <<>>))
    /\ []((pc = "done" /\ cpc = "done") \/ ENABLED GameNext)
    \* the rounds play_game has left are the result frames it has taken: the
    \* dealer's other result frames are still on their way, in order
    /\ [](/\ Len(cdata \o s2c) % PAYLOAD_SIZE = 0
          /\ c_r + ResultsIn(cdata \o s2c) = nResults
          /\ c_r <= num_rounds)
    /\ [][c_r' # c_r =>
            /\ c_r' = c_r + 1
            /\ cpc = "process" /\ IsResult(cdata)
            /\ nResults >= c_r'
            /\ c_r + ResultsIn(cdata \o s2c) = nResults
            /\ cpc' = "for_loop"]_vars
    /\ [][(cpc \in {"recv", "process", "input"} /\ cpc' \in {"for_loop", "done"}) =>
            c_r' = c_r + 1]_vars
    \* the counters
    /\ [][cpc = "process" /\ cpc' # cpc /\ IsResult(cdata) =>
            /\ PayloadRes(cdata) \in {TIE, LOSS, WIN}
            /\ stats' = Tally(stats, PayloadRes(cdata))
            /\ Total(stats') = Total(stats) + 1]_vars
    /\ [][stats' # stats => cpc = "process" /\ IsResult(cdata)]_vars
    /\ [](Total(stats) = Total(PreviousStats) + c_r)
    \* at the end
    /\ [](cpc = "done" =>
            /\ c_r = num_rounds
            /\ nResults = num_rounds
            /\ Total(stats) = Total(PreviousStats) + num_rounds)
    /\ [](pc = "done" => exit = "finished" /\ r = num_rounds)

\* both have finished a game of two rounds, one won and one lost
C20_Witness ==
    /\ cpc = "done" /\ pc = "done"
    /\ num_rounds = 2
    /\ stats = [wins |-> PreviousStats.wins + 1,
                losses |-> PreviousStats.losses + 1,
                ties |-> PreviousStats.ties]

=============================================================================
